---- MODULE Spec2Model ----
(***************************************************************************)
(* Model of plugins/modules/firewalld.py (ansible.posix): the module's     *)
(* main() and the FirewallTransaction subclasses it drives, run against a  *)
(* firewalld configuration made of a permanent (on-disk) layer and a live  *)
(* (runtime) layer.                                                        *)
(*                                                                         *)
(* One invocation of the module is one action: main() is single-threaded   *)
(* and synchronous, and the module assumes it is the only writer.          *)
(* Rule leases (the timeout argument) are passed through to the daemon and *)
(* expire there; expiry is not part of this model.  The zone option is     *)
(* always given, Ansible's check mode is off, and string options are not   *)
(* empty.  AnsibleModule has already enforced mutually_exclusive: at most  *)
(* one primitive option is supplied.                                       *)
(***************************************************************************)
EXTENDS Naturals, Sequences, FiniteSets, TLC

VARIABLES
    cfg,      \* the firewalld configuration: both layers of every zone
    running,  \* TRUE when the firewalld daemon runs (fw_offline is its negation)
    last,     \* the last invocation: its parameters, the configuration before it (pre)
              \* and before the enable it undoes (first), its outcome
    runs      \* number of invocations made so far

vars == <<cfg, running, last, runs>>

(***************************************************************************)
(* Bounds and value universes                                              *)
(***************************************************************************)
MaxRuns == 2

Zones == {"public", "work", "custom"}

\* zones loaded in the running daemon; a zone created permanently is not
\* live before a reload (module notes, lines 145-150)
LiveZones == {"public", "work"}

States == {"absent", "disabled", "enabled", "present"}

Targets == {"default", "ACCEPT", "DROP", "%%REJECT%%"}

Prims == {"icmp_block", "icmp_block_inversion", "service", "protocol", "port",
          "source_port", "port_forward", "rich_rule", "interface", "forward",
          "masquerade", "source", "target"}

BoolPrims == {"icmp_block_inversion", "forward", "masquerade"}

PortPrims == {"port", "source_port"}

StrPrims == Prims \ (BoolPrims \cup PortPrims \cup {"port_forward"})

\* port strings as token sequences: "80/tcp", "80" and "80/"
PortStrings == {<<"80", "/", "tcp">>, <<"80">>, <<"80", "/">>}

\* one forwarded-port definition, and a list of two of them
PF1 == [port |-> "443", proto |-> "tcp", toport |-> "8443", toaddr |-> ""]

PF2 == [port |-> "80", proto |-> "tcp", toport |-> "8080", toaddr |-> ""]

PortForwards == {<<PF1>>, <<PF1, PF2>>}

\* the rich rule in canonical form and the same rule written differently
RuleCanon == "rule service name=\"ftp\" accept"

RuleLoose == "rule  service name=ftp accept"

StrValues(prim) ==
    CASE prim = "icmp_block" -> {"echo-request"}
      [] prim = "service"    -> {"https"}
      [] prim = "protocol"   -> {"ospf"}
      [] prim = "rich_rule"  -> {RuleCanon, RuleLoose}
      [] prim = "interface"  -> {"eth2"}
      [] prim = "source"     -> {"192.0.2.0/24"}
      [] prim = "target"     -> Targets
      [] OTHER               -> {""}

\* module.params of one invocation.  prim names the one primitive option that
\* is supplied ("none": no primitive); its value is in str, flag, toks or pf
\* according to the option's type, the other value fields keep their blanks.
\* pick is the zone the daemon's getZoneOfInterface lookup meets first;
\* fault tells whether the commit of the target zone's settings raises.
MkValue(k, s, f, t, l) == [prim |-> k, str |-> s, flag |-> f, toks |-> t, pf |-> l]

ValueSpace ==
    UNION { { MkValue(k, s, FALSE, <<>>, <<>>) : s \in StrValues(k) } : k \in StrPrims }
    \cup { MkValue(k, "", f, <<>>, <<>>) : k \in BoolPrims, f \in BOOLEAN }
    \cup { MkValue(k, "", FALSE, t, <<>>) : k \in PortPrims, t \in PortStrings }
    \cup { MkValue("port_forward", "", FALSE, <<>>, l) : l \in PortForwards }
    \cup { MkValue("none", "", FALSE, <<>>, <<>>) }

MkParams(v, st, pe, im, off, z, pk) ==
    [prim |-> v.prim, str |-> v.str, flag |-> v.flag, toks |-> v.toks, pf |-> v.pf,
     state |-> st, permanent |-> pe, immediate |-> im, offline |-> off,
     zone |-> z, pick |-> pk, fault |-> "none"]

Picks(v) == IF v.prim = "interface" THEN LiveZones ELSE {"public"}

\* the commit of the target zone goes through, or raises
Faults == {"none", "commit"}

\* the same invocation, met by a failing commit of the target zone
Faulty(p) == [p EXCEPT !.fault = "commit"]

ParamSpace ==
    UNION { { MkParams(v, st, pe, im, off, z, pk) :
                st \in States, pe \in BOOLEAN, im \in BOOLEAN, off \in BOOLEAN,
                z \in Zones, pk \in Picks(v) } : v \in ValueSpace }

\* an interface assignment is also run against a target zone whose commit raises
InvocationSpace ==
    ParamSpace \cup { Faulty(p) : p \in { q \in ParamSpace : q.prim = "interface" } }

(***************************************************************************)
(* The firewalld configuration and the client binding's operations on it.  *)
(* A rule is <<zone, kind, args>>: args is the transaction's action_args   *)
(* without the timeout (<<>> for the boolean zone flags).                  *)
(***************************************************************************)
\* str(Rich_Rule(rule_str=rule)): the canonical text of a rich rule
Rich_Rule(rule) == IF rule = RuleLoose THEN RuleCanon ELSE rule

\* the daemon stores rich rules in canonical form
Stored(kind, args) == IF kind = "rich_rule" THEN <<Rich_Rule(args[1])>> ELSE args

Ok(c, v) == [cfg |-> c, ok |-> TRUE, val |-> v, err |-> "none"]

Fail(c, e) == [cfg |-> c, ok |-> FALSE, val |-> FALSE, err |-> e]

\* get_fw_zone_settings: a snapshot of the zone's permanent settings
get_fw_zone_settings(c, zone) ==
    [rules  |-> { <<e[2], e[3]>> : e \in { x \in c.perm : x[1] = zone } },
     target |-> c.ptarget[zone]]

\* update_fw_settings: the snapshot replaces the zone's permanent settings
update_fw_settings(c, zone, s) ==
    [c EXCEPT !.perm = { x \in c.perm : x[1] # zone }
                         \cup { <<zone, r[1], r[2]>> : r \in s.rules },
              !.ptarget[zone] = s.target]

\* settings.addX / settings.setX(True)
settings_add(s, kind, args) == [s EXCEPT !.rules = @ \cup { <<kind, Stored(kind, args)>> }]

\* settings.removeX / settings.setX(False)
settings_remove(s, kind, args) == [s EXCEPT !.rules = @ \ { <<kind, Stored(kind, args)>> }]

\* settings.getX() / settings.queryX(...)
settings_query(s, kind, args) == <<kind, args>> \in s.rules

\* fw.getX(zone) / fw.queryX(zone, ...) on the running daemon
fw_query(c, zone, kind, args) == <<zone, kind, args>> \in c.runtime

\* fw.addX(zone, ..., timeout)
fw_add(c, zone, kind, args) ==
    [c EXCEPT !.runtime = @ \cup { <<zone, kind, Stored(kind, args)>> }]

\* fw.removeX(zone, ...)
fw_remove(c, zone, kind, args) ==
    [c EXCEPT !.runtime = @ \ { <<zone, kind, Stored(kind, args)>> }]

\* fw.changeZoneOfInterface(zone, interface): the interface leaves every other live zone
fw_changeZoneOfInterface(c, zone, args) ==
    [c EXCEPT !.runtime = { x \in @ : ~(x[2] = "interface" /\ x[3] = args) }
                            \cup { <<zone, "interface", args>> }]

\* the permanent zones whose settings list the interface
OwnersOf(c, args) == { z \in c.pzones : <<z, "interface", args>> \in c.perm }

\* fw.config().getZoneOfInterface(interface): "" when no zone has it
getZoneOfInterface(c, args, pick) ==
    IF OwnersOf(c, args) = {} THEN ""
    ELSE IF pick \in OwnersOf(c, args) THEN pick
    ELSE CHOOSE z \in OwnersOf(c, args) : TRUE

\* fw.config().addZone(name, FirewallClientZoneSettings()) / config.new_zone
addZone(c, zone) ==
    [c EXCEPT !.pzones = @ \cup {zone},
              !.perm = { x \in @ : x[1] # zone },
              !.ptarget[zone] = "default"]

\* zone_obj.remove() / config.remove_zone
removeZone(c, zone) ==
    [c EXCEPT !.pzones = @ \ {zone},
              !.perm = { x \in @ : x[1] # zone },
              !.ptarget[zone] = "default"]

(***************************************************************************)
(* The FirewallTransaction subclasses.  tx is the transaction object:      *)
(* [kind, zone, args, desired_state, permanent, immediate, fw_offline,     *)
(*  pick, fault, enabled_values, disabled_values].  Every operation        *)
(* returns the configuration it leaves, whether it returned normally, its  *)
(* value, and the error it failed with.                                    *)
(***************************************************************************)
\* the permanent settings of tx.zone can be fetched
PermZoneKnown(tx, c) == tx.zone \in c.pzones

\* the running daemon knows tx.zone
LiveZoneKnown(tx, c) == ~tx.fw_offline /\ tx.zone \in LiveZones

\* the canonical form is looked up (RichRuleTransaction), other kinds look up their args
QueryArgs(tx) == IF tx.kind = "rich_rule" THEN <<Rich_Rule(tx.args[1])>> ELSE tx.args

\* mutant: the live probe asks the settings on disk
Plain_get_enabled_immediate_AsksDisk(tx, c) ==
    IF LiveZoneKnown(tx, c)
    THEN Ok(c, settings_query(get_fw_zone_settings(c, tx.zone), tx.kind, QueryArgs(tx)))
    ELSE Fail(c, "exception")

\* IcmpBlock, IcmpBlockInversion, Service, Protocol, Forward, Masquerade,
\* RichRule, Source: the live layer is asked
Plain_get_enabled_immediate(tx, c) ==
    IF LiveZoneKnown(tx, c)
    THEN Ok(c, fw_query(c, tx.zone, tx.kind, QueryArgs(tx)))
    ELSE Fail(c, "exception")

\* every kind but Zone: the fetched settings snapshot is asked
Plain_get_enabled_permanent(tx, c) ==
    IF PermZoneKnown(tx, c)
    THEN Ok(c, settings_query(get_fw_zone_settings(c, tx.zone), tx.kind, QueryArgs(tx)))
    ELSE Fail(c, "exception")

\* Port, SourcePort, ForwardPort: in offline mode the settings snapshot is asked
Port_get_enabled_immediate(tx, c) ==
    IF tx.fw_offline
    THEN Plain_get_enabled_permanent(tx, c)
    ELSE Plain_get_enabled_immediate(tx, c)

Plain_set_enabled_immediate(tx, c) ==
    IF LiveZoneKnown(tx, c)
    THEN Ok(fw_add(c, tx.zone, tx.kind, tx.args), TRUE)
    ELSE Fail(c, "exception")

\* mutant: the rule is written to every zone on disk
Plain_set_enabled_permanent_EveryZone(tx, c) ==
    IF PermZoneKnown(tx, c)
    THEN Ok([c EXCEPT !.perm = @ \cup { <<z, tx.kind, Stored(tx.kind, tx.args)>> :
                                           z \in c.pzones }], TRUE)
    ELSE Fail(c, "exception")

\* mutant: the rule is written to disk and to the running daemon
Plain_set_enabled_permanent_AlsoLive(tx, c) ==
    IF PermZoneKnown(tx, c)
    THEN Ok(fw_add(update_fw_settings(c, tx.zone,
                settings_add(get_fw_zone_settings(c, tx.zone), tx.kind, tx.args)),
                tx.zone, tx.kind, tx.args), TRUE)
    ELSE Fail(c, "exception")

Plain_set_enabled_permanent(tx, c) ==
    IF PermZoneKnown(tx, c)
    THEN Ok(update_fw_settings(c, tx.zone,
                settings_add(get_fw_zone_settings(c, tx.zone), tx.kind, tx.args)), TRUE)
    ELSE Fail(c, "exception")

Plain_set_disabled_immediate(tx, c) ==
    IF LiveZoneKnown(tx, c)
    THEN Ok(fw_remove(c, tx.zone, tx.kind, tx.args), TRUE)
    ELSE Fail(c, "exception")

\* mutant: the settings are committed as they were fetched
Plain_set_disabled_permanent_Keeps(tx, c) ==
    IF PermZoneKnown(tx, c)
    THEN Ok(update_fw_settings(c, tx.zone, get_fw_zone_settings(c, tx.zone)), TRUE)
    ELSE Fail(c, "exception")

\* every kind but ZoneTarget and Zone
Plain_set_disabled_permanent(tx, c) ==
    IF PermZoneKnown(tx, c)
    THEN Ok(update_fw_settings(c, tx.zone,
                settings_remove(get_fw_zone_settings(c, tx.zone), tx.kind, tx.args)), TRUE)
    ELSE Fail(c, "exception")

\* InterfaceTransaction.get_enabled_immediate
Interface_get_enabled_immediate(tx, c) ==
    IF tx.fw_offline
    THEN Plain_get_enabled_permanent(tx, c)
    ELSE Plain_get_enabled_immediate(tx, c)

\* InterfaceTransaction.set_enabled_immediate
Interface_set_enabled_immediate(tx, c) ==
    IF LiveZoneKnown(tx, c)
    THEN Ok(fw_changeZoneOfInterface(c, tx.zone, tx.args), TRUE)
    ELSE Fail(c, "exception")

\* the commit of the target zone's settings (lines 670, 680): it may raise,
\* and then the configuration stays as the commits before it left it
CommitTarget(tx, before, after) ==
    IF tx.fault = "commit" THEN Fail(before, "exception") ELSE Ok(after, TRUE)

\* 'ERROR: interface {0} is in {1} zone XML file, can only be in one'
MultiZoneError(n) ==
    CASE n = 2 -> "interface is in 2 zone XML file"
      [] n = 3 -> "interface is in 3 zone XML file"
      [] OTHER -> "interface is in many zone XML file"

\* the interface is taken out of the settings of zone old, and those are committed
RemoveFromOld(c, old, args) ==
    update_fw_settings(c, old, settings_remove(get_fw_zone_settings(c, old), "interface", args))

\* the interface is put in the settings fetched for tx.zone, and those are committed
AddToTarget(tx, c, c1) ==
    CommitTarget(tx, c1,
        update_fw_settings(c1, tx.zone,
            settings_add(get_fw_zone_settings(c, tx.zone), "interface", tx.args)))

\* mutant: the old zone keeps the interface
Interface_set_enabled_permanent_offline_KeepsOld(tx, c) ==
    IF Cardinality(OwnersOf(c, tx.args)) > 1
    THEN Fail(c, MultiZoneError(Cardinality(OwnersOf(c, tx.args))))
    ELSE AddToTarget(tx, c, c)

\* mutant: the zone files holding the interface are not counted
Interface_set_enabled_permanent_offline_NoCount(tx, c) ==
    LET iface_zone_objs == OwnersOf(c, tx.args)
        old == CHOOSE z \in iface_zone_objs : TRUE
    IN  AddToTarget(tx, c, IF iface_zone_objs # {} /\ old # tx.zone
                           THEN RemoveFromOld(c, old, tx.args) ELSE c)

\* InterfaceTransaction.set_enabled_permanent, offline branch (lines 645-670)
Interface_set_enabled_permanent_offline(tx, c) ==
    LET iface_zone_objs == OwnersOf(c, tx.args)
        old == CHOOSE z \in iface_zone_objs : TRUE
    IN  IF Cardinality(iface_zone_objs) > 1
        THEN Fail(c, MultiZoneError(Cardinality(iface_zone_objs)))
        ELSE AddToTarget(tx, c, IF Cardinality(iface_zone_objs) = 1 /\ old # tx.zone
                                THEN RemoveFromOld(c, old, tx.args) ELSE c)

\* mutant: the zone the daemon names as owner keeps the interface
Interface_set_enabled_permanent_online_KeepsOld(tx, c) ==
    IF getZoneOfInterface(c, tx.args, tx.pick) # tx.zone
    THEN AddToTarget(tx, c, c)
    ELSE Ok(c, TRUE)

\* InterfaceTransaction.set_enabled_permanent, live-daemon branch (lines 672-680)
Interface_set_enabled_permanent_online(tx, c) ==
    LET old_zone_name == getZoneOfInterface(c, tx.args, tx.pick)
    IN  IF old_zone_name # tx.zone
        THEN AddToTarget(tx, c, IF old_zone_name # ""
                                THEN RemoveFromOld(c, old_zone_name, tx.args) ELSE c)
        ELSE Ok(c, TRUE)

Interface_set_enabled_permanent(tx, c) ==
    IF ~PermZoneKnown(tx, c) THEN Fail(c, "exception")
    ELSE IF tx.fw_offline THEN Interface_set_enabled_permanent_offline(tx, c)
    ELSE Interface_set_enabled_permanent_online(tx, c)

\* mutant: the immediate operations of the zone kinds answer "not enabled" and return
NotPermanent_Silent(tx, c) == Ok(c, FALSE)

\* ZoneTargetTransaction and ZoneTransaction: get/set_enabled/set_disabled _immediate
NotPermanent(tx, c) == Fail(c, "not_permanent")

ZoneTarget_get_enabled_permanent(tx, c) ==
    IF PermZoneKnown(tx, c)
    THEN Ok(c, get_fw_zone_settings(c, tx.zone).target = tx.args[1])
    ELSE Fail(c, "exception")

ZoneTarget_set_enabled_permanent(tx, c) ==
    IF PermZoneKnown(tx, c)
    THEN Ok(update_fw_settings(c, tx.zone,
                [get_fw_zone_settings(c, tx.zone) EXCEPT !.target = tx.args[1]]), TRUE)
    ELSE Fail(c, "exception")

ZoneTarget_set_disabled_permanent(tx, c) ==
    IF PermZoneKnown(tx, c)
    THEN Ok(update_fw_settings(c, tx.zone,
                [get_fw_zone_settings(c, tx.zone) EXCEPT !.target = "default"]), TRUE)
    ELSE Fail(c, "exception")

\* mutant: the zone is never found
Zone_get_enabled_permanent_Never(tx, c) == Ok(c, FALSE)

Zone_get_enabled_permanent(tx, c) == Ok(c, tx.zone \in c.pzones)

Zone_set_enabled_permanent(tx, c) ==
    IF tx.zone \in c.pzones THEN Fail(c, "exception") ELSE Ok(addZone(c, tx.zone), TRUE)

Zone_set_disabled_permanent(tx, c) ==
    IF tx.zone \in c.pzones THEN Ok(removeZone(c, tx.zone), TRUE) ELSE Fail(c, "exception")

\* the six operations of the capability contract, by transaction class
get_enabled_immediate(tx, c) ==
    CASE tx.kind \in {"target", "zone"} -> NotPermanent(tx, c)
      [] tx.kind = "interface" -> Interface_get_enabled_immediate(tx, c)
      [] tx.kind \in {"port", "source_port", "port_forward"} -> Port_get_enabled_immediate(tx, c)
      [] OTHER -> Plain_get_enabled_immediate(tx, c)

get_enabled_permanent(tx, c) ==
    CASE tx.kind = "target" -> ZoneTarget_get_enabled_permanent(tx, c)
      [] tx.kind = "zone" -> Zone_get_enabled_permanent(tx, c)
      [] OTHER -> Plain_get_enabled_permanent(tx, c)

set_enabled_immediate(tx, c) ==
    CASE tx.kind \in {"target", "zone"} -> NotPermanent(tx, c)
      [] tx.kind = "interface" -> Interface_set_enabled_immediate(tx, c)
      [] OTHER -> Plain_set_enabled_immediate(tx, c)

set_enabled_permanent(tx, c) ==
    CASE tx.kind = "target" -> ZoneTarget_set_enabled_permanent(tx, c)
      [] tx.kind = "zone" -> Zone_set_enabled_permanent(tx, c)
      [] tx.kind = "interface" -> Interface_set_enabled_permanent(tx, c)
      [] OTHER -> Plain_set_enabled_permanent(tx, c)

set_disabled_immediate(tx, c) ==
    CASE tx.kind \in {"target", "zone"} -> NotPermanent(tx, c)
      [] OTHER -> Plain_set_disabled_immediate(tx, c)

set_disabled_permanent(tx, c) ==
    CASE tx.kind = "target" -> ZoneTarget_set_disabled_permanent(tx, c)
      [] tx.kind = "zone" -> Zone_set_disabled_permanent(tx, c)
      [] OTHER -> Plain_set_disabled_permanent(tx, c)

(***************************************************************************)
(* FirewallTransaction.run(): the reconciliation algorithm (spec 4.2).     *)
(* Every requested layer is probed, permanent first; then every layer      *)
(* whose probe differs from the desired state is mutated, permanent first. *)
(***************************************************************************)
Wanted(tx) == tx.desired_state \in tx.enabled_values

Unwanted(tx) == tx.desired_state \in tx.disabled_values

\* a layer is mutated when its probe differs from the desired state
Differs(tx, probe) == (Wanted(tx) /\ ~probe.val) \/ (Unwanted(tx) /\ probe.val)

TxResult(c, changed, probe, calls) ==
    [cfg |-> c, changed |-> changed, failed |-> ~probe.ok, err |-> probe.err, calls |-> calls]

\* the operations the transaction has called so far
Calls(tx, probedI, needP, needI) ==
    (IF tx.permanent THEN {"get_enabled_permanent"} ELSE {})
    \cup (IF tx.immediate /\ probedI THEN {"get_enabled_immediate"} ELSE {})
    \cup (IF needP THEN {"set_permanent"} ELSE {})
    \cup (IF needI THEN {"set_immediate"} ELSE {})

\* the live layer has been mutated (or needed nothing): the transaction's result
Reconciled(tx, needP, needI, si) ==
    TxResult(si.cfg, si.ok /\ (needP \/ needI), si, Calls(tx, TRUE, needP, needI))

\* the permanent layer has been mutated (or needed nothing): now the live layer
MutateImmediate(tx, needP, needI, sp) ==
    IF ~sp.ok THEN TxResult(sp.cfg, FALSE, sp, Calls(tx, TRUE, needP, FALSE))
    ELSE Reconciled(tx, needP, needI,
            IF ~needI THEN Ok(sp.cfg, FALSE)
            ELSE IF Wanted(tx) THEN set_enabled_immediate(tx, sp.cfg)
            ELSE set_disabled_immediate(tx, sp.cfg))

\* both probes are in: mutate the permanent layer first
MutatePermanent(tx, c, needP, needI) ==
    MutateImmediate(tx, needP, needI,
        IF ~needP THEN Ok(c, FALSE)
        ELSE IF Wanted(tx) THEN set_enabled_permanent(tx, c)
        ELSE set_disabled_permanent(tx, c))

\* the probes' answers decide which layers are mutated
Probed(tx, c, gp, gi) ==
    IF ~gp.ok THEN TxResult(c, FALSE, gp, Calls(tx, FALSE, FALSE, FALSE))
    ELSE IF ~gi.ok THEN TxResult(c, FALSE, gi, Calls(tx, TRUE, FALSE, FALSE))
    ELSE MutatePermanent(tx, c, tx.permanent /\ Differs(tx, gp),
                                tx.immediate /\ Differs(tx, gi))

run(tx, c) ==
    Probed(tx, c,
           IF tx.permanent THEN get_enabled_permanent(tx, c) ELSE Ok(c, FALSE),
           IF tx.immediate THEN get_enabled_immediate(tx, c) ELSE Ok(c, FALSE))

(***************************************************************************)
(* main()                                                                  *)
(***************************************************************************)
ConfigErrors == {"offline_without_permanent", "port_format", "source_port_format",
                 "port_forward_count", "zone_level_only"}

\* mutant: the negation of permanent is lost
OfflineWithoutPermanent_NoNegation(offline, permanent) == offline /\ permanent

\* lines 971-974: offline without permanent
OfflineWithoutPermanent(offline, permanent) == offline /\ ~permanent

\* mutant: offline never overrides immediate
OfflineOverride_Never(offline, immediate, fw_offline) == immediate

\* lines 976-978: offline overrides immediate to false if firewalld is offline
OfflineOverride(offline, immediate, fw_offline) ==
    IF offline /\ fw_offline THEN FALSE ELSE immediate

\* mutant: immediate is not defaulted
ImmediateDefault_Never(permanent, immediate) == immediate

\* lines 980-982: immediate defaults to true if permanent is not enabled
ImmediateDefault(permanent, immediate) ==
    IF ~permanent /\ ~immediate THEN TRUE ELSE immediate

\* mutant: the running daemon is not checked for
ImmediateWhileOffline_Never(immediate, fw_offline) == FALSE

\* line 984: immediate actions need a running daemon
ImmediateWhileOffline(immediate, fw_offline) == immediate /\ fw_offline

\* the immediate flag the transactions are built with
EffectiveImmediate(p, fw_offline) ==
    ImmediateDefault(p.permanent, OfflineOverride(p.offline, p.immediate, fw_offline))

\* str.strip() on a token sequence: blanks at both ends go
RECURSIVE StripLeft(_)
StripLeft(t) == IF t # <<>> /\ Head(t) = " " THEN StripLeft(Tail(t)) ELSE t

RECURSIVE StripRight(_)
StripRight(t) ==
    IF t # <<>> /\ t[Len(t)] = " " THEN StripRight(SubSeq(t, 1, Len(t) - 1)) ELSE t

Strip(t) == StripRight(StripLeft(t))

\* str.split('/'): the parts between the slashes
RECURSIVE Split(_)
Split(t) ==
    IF t = <<>> THEN << <<>> >>
    ELSE LET r == Split(Tail(t))
         IN  IF Head(t) = "/" THEN << <<>> >> \o r
             ELSE << <<Head(t)>> \o Head(r) >> \o Tail(r)

\* the text of a part of at most one token
Text(part) == IF part = <<>> THEN "" ELSE part[1]

\* mutant: a missing protocol is let through
ParsePort_Lenient(toks) ==
    [err |-> "none", port |-> Text(Head(Split(Strip(toks)))), proto |-> ""]

\* lines 999-1008 and 1010-1019: port and protocol of a port string.
\* err is "format" when the protocol is missing, "unpack" when the split
\* does not give two parts.
ParsePort(toks) ==
    LET parts == Split(Strip(toks))
        has   == \E i \in 1..Len(toks) : toks[i] = "/"
    IN  IF ~has THEN [err |-> "format", port |-> "", proto |-> ""]
        ELSE IF Len(parts) # 2 THEN [err |-> "unpack", port |-> "", proto |-> ""]
        ELSE IF Text(parts[2]) = "" THEN [err |-> "format", port |-> "", proto |-> ""]
        ELSE [err |-> "none", port |-> Text(parts[1]), proto |-> Text(parts[2])]

\* the option is supplied (is not None)
Supplied(p, name) == p.prim = name

\* Python truth of the value main() puts in the any([...]) list of line 1037
Truthy(p) ==
    CASE p.prim = "none" -> FALSE
      [] p.prim \in BoolPrims -> p.flag
      [] p.prim \in PortPrims -> ParsePort(p.toks).port # ""
      [] p.prim = "port_forward" -> TRUE
      [] OTHER -> p.str # ""

\* lines 1036-1039
modification(p) == Truthy(p)

\* lines 1040-1043
ZoneLevelOnly(p) == modification(p) /\ p.state \in {"absent", "present"} /\ ~Supplied(p, "target")

\* mutant: the comparison with the flag is turned round
expected_state_Xor(desired_state, flag) ==
    IF (desired_state = "enabled") # flag THEN "enabled" ELSE "disabled"

\* mutant: the flag's value is ignored
expected_state_NoFlag(desired_state, flag) ==
    IF desired_state = "enabled" THEN "enabled" ELSE "disabled"

\* lines 1062, 1217, 1231
expected_state(desired_state, flag) ==
    IF (desired_state = "enabled") = flag THEN "enabled" ELSE "disabled"

\* mutant: the state is not looked at
ZoneLevel_AnyState(p) == ~modification(p)

\* lines 1259: the zone itself is operated on
ZoneLevel(p) == ~modification(p) /\ p.state \in {"absent", "present"}

\* action_args of the primitive's transaction, without the timeout
ActionArgs(p) ==
    CASE p.prim \in BoolPrims -> <<>>
      [] p.prim \in PortPrims -> <<ParsePort(p.toks).port, ParsePort(p.toks).proto>>
      [] p.prim = "port_forward" ->
            <<p.pf[1].port, p.pf[1].proto, p.pf[1].toport, p.pf[1].toaddr>>
      [] OTHER -> <<p.str>>

\* desired_state handed to the primitive's transaction
TxDesired(p) == IF p.prim \in BoolPrims THEN expected_state(p.state, p.flag) ELSE p.state

\* enabled_values / disabled_values of the transaction classes
EnabledValues(kind) ==
    CASE kind = "target" -> {"present", "enabled"}
      [] kind = "zone" -> {"present"}
      [] OTHER -> {"enabled"}

DisabledValues(kind) ==
    CASE kind = "target" -> {"absent", "disabled"}
      [] kind = "zone" -> {"absent"}
      [] OTHER -> {"disabled"}

Transaction(kind, args, desired, p, immediate, fw_offline) ==
    [kind |-> kind, zone |-> p.zone, args |-> args, desired_state |-> desired,
     permanent |-> p.permanent, immediate |-> immediate, fw_offline |-> fw_offline,
     pick |-> p.pick, fault |-> p.fault, enabled_values |-> EnabledValues(kind),
     disabled_values |-> DisabledValues(kind)]

\* the outcome of main(): exit_json(changed) or fail_json(err)
Outcome(c, changed, failed, err, txns, calls, permanent, immediate) ==
    [cfg |-> c, changed |-> changed, failed |-> failed, err |-> err, txns |-> txns,
     calls |-> calls, permanent |-> permanent, immediate |-> immediate]

\* fail_json before any transaction was made
EarlyFail(c, err, p, immediate) ==
    Outcome(c, FALSE, TRUE, err, <<>>, {}, p.permanent, immediate)

\* lines 999-1043: the checks on the primitive's value, in the order main() makes them
ValueError(p) ==
    IF Supplied(p, "port") /\ ParsePort(p.toks).err = "format" THEN "port_format"
    ELSE IF Supplied(p, "port") /\ ParsePort(p.toks).err = "unpack" THEN "exception"
    ELSE IF Supplied(p, "source_port") /\ ParsePort(p.toks).err = "format"
         THEN "source_port_format"
    ELSE IF Supplied(p, "source_port") /\ ParsePort(p.toks).err = "unpack" THEN "exception"
    ELSE IF Supplied(p, "port_forward") /\ Len(p.pf) > 1 THEN "port_forward_count"
    ELSE IF ZoneLevelOnly(p) THEN "zone_level_only"
    ELSE "none"

\* the transactions' calls, each with the kind of its transaction
CallsOf(kind, r) == { <<kind, op>> : op \in r.calls }

\* lines 1258-1273 and 1278: the zone's transaction has run
AfterZone(p, immediate, r1, r2) ==
    Outcome(r2.cfg, ~r2.failed /\ r2.changed, r2.failed, r2.err,
            (IF p.prim # "none" THEN <<p.prim>> ELSE <<>>) \o <<"zone">>,
            CallsOf(p.prim, r1) \cup CallsOf("zone", r2), p.permanent, immediate)

\* lines 1258-1278: the primitive's transaction has run (r1)
AfterPrimitive(p, immediate, fw_offline, r1) ==
    IF r1.failed \/ ~ZoneLevel(p)
    THEN Outcome(r1.cfg, ~r1.failed /\ r1.changed, r1.failed, r1.err,
                 IF p.prim # "none" THEN <<p.prim>> ELSE <<>>,
                 CallsOf(p.prim, r1), p.permanent, immediate)
    ELSE AfterZone(p, immediate, r1,
                   run(Transaction("zone", <<>>, p.state, p, immediate, fw_offline), r1.cfg))

\* lines 1045-1273: the primitive's transaction, then the zone's
Transactions(p, c, immediate, fw_offline) ==
    AfterPrimitive(p, immediate, fw_offline,
        IF p.prim # "none"
        THEN run(Transaction(p.prim, ActionArgs(p), TxDesired(p), p, immediate, fw_offline), c)
        ELSE TxResult(c, FALSE, Ok(c, FALSE), {}))

\* lines 987-1273, once the layer flags are settled
Checked(p, c, immediate, fw_offline, verr) ==
    IF verr # "none"
    THEN EarlyFail(c, verr, p, immediate)
    ELSE Transactions(p, c, immediate, fw_offline)

\* lines 980-1273, with the immediate flag after defaulting
Defaulted(p, c, immediate, fw_offline) ==
    IF ImmediateWhileOffline(immediate, fw_offline)
    THEN EarlyFail(c, "unreachable", p, immediate)
    ELSE Checked(p, c, immediate, fw_offline, ValueError(p))

main(p, c, fw_offline) ==
    IF OfflineWithoutPermanent(p.offline, p.permanent)
    THEN EarlyFail(c, "offline_without_permanent", p, p.immediate)
    ELSE Defaulted(p, c, EffectiveImmediate(p, fw_offline), fw_offline)

(***************************************************************************)
(* The state machine                                                       *)
(***************************************************************************)
\* every rule the model knows, for one zone
AllRules(z) ==
    { <<z, v.prim, Stored(v.prim, ActionArgs(v))>> :
        v \in { w \in ValueSpace : /\ w.prim \notin {"none", "target"}
                                   /\ w.prim \in PortPrims => ParsePort(w.toks).err = "none" } }

NoRun == [p |-> MkParams(MkValue("none", "", FALSE, <<>>, <<>>), "enabled",
                         FALSE, FALSE, FALSE, "public", "public"),
          pre |-> [pzones |-> {}, perm |-> {}, runtime |-> {},
                   ptarget |-> [z \in Zones |-> "default"]],
          first |-> [pzones |-> {}, perm |-> {}, runtime |-> {},
                     ptarget |-> [z \in Zones |-> "default"]],
          repeat |-> FALSE, undo |-> FALSE,
          res |-> [cfg |-> [pzones |-> {}, perm |-> {}, runtime |-> {},
                            ptarget |-> [z \in Zones |-> "default"]],
                   changed |-> FALSE, failed |-> FALSE, err |-> "none", txns |-> <<>>,
                   calls |-> {}, permanent |-> FALSE, immediate |-> FALSE]]

\* the configuration found at start: zone "public" holds every rule or none
\* in each layer, and has any target; zone "custom" may exist on disk
Init ==
    /\ running \in BOOLEAN
    /\ \E pz \in {LiveZones, Zones}, inP \in BOOLEAN, inR \in BOOLEAN, tg \in Targets :
          /\ running \/ ~inR
          /\ cfg = [pzones  |-> pz,
                    perm    |-> IF inP THEN AllRules("public") ELSE {},
                    runtime |-> IF inR THEN AllRules("public") ELSE {},
                    ptarget |-> [z \in Zones |-> IF z = "public" THEN tg ELSE "default"]]
    /\ last = NoRun
    /\ runs = 0

\* an invocation with parameters p has ended with outcome r
Record(p, r, again) ==
    /\ cfg' = r.cfg
    /\ last' = [p |-> p, pre |-> cfg, first |-> cfg, repeat |-> again, undo |-> FALSE,
                 res |-> r]
    /\ runs' = runs + 1
    /\ UNCHANGED running

\* one run of the module with parameters p
Invoke(p) ==
    /\ runs = 0
    /\ Record(p, main(p, cfg, ~running), FALSE)

\* the same invocation run once more
Repeat ==
    /\ runs > 0
    /\ runs < MaxRuns
    /\ Record(last.p, main(last.p, cfg, ~running), TRUE)

\* the invocation p with its state turned round
Opposite(p) ==
    [p EXCEPT !.state = CASE p.state = "enabled"  -> "disabled"
                          [] p.state = "disabled" -> "enabled"
                          [] p.state = "present"  -> "absent"
                          [] OTHER                -> "present"]

\* the invocation asks for its (kind, args) to be enabled / to be disabled
Enables(p) ==
    IF p.prim = "none" THEN p.state = "present"
    ELSE TxDesired(p) \in EnabledValues(p.prim)

Disables(p) ==
    IF p.prim = "none" THEN p.state = "absent"
    ELSE TxDesired(p) \in DisabledValues(p.prim)

\* the disable invocation q has ended with outcome r; first is the
\* configuration the enable before it was run on
Undone(q, r) ==
    /\ cfg' = r.cfg
    /\ last' = [p |-> q, pre |-> cfg, first |-> last.pre, repeat |-> FALSE, undo |-> TRUE,
                 res |-> r]
    /\ runs' = runs + 1
    /\ UNCHANGED running

\* an enable invocation that succeeded is followed by the disable
\* invocation with the same (kind, args), layers and zone
Reverse ==
    /\ runs = 1
    /\ ~last.res.failed
    /\ Enables(last.p) /\ Disables(Opposite(last.p))
    /\ Undone(Opposite(last.p), main(Opposite(last.p), cfg, ~running))

\* the module is run on the configuration found, then run again unchanged
FirstRun == runs = 0 /\ \E p \in InvocationSpace : Invoke(p)

Next == FirstRun \/ Repeat \/ Reverse

Spec == Init /\ [][Next]_vars

(***************************************************************************)
(* Sequences of interface invocations.  The daemon stays up or stays down  *)
(* through a sequence; the start ranges over every permanent configuration *)
(* in which each interface has at most one zone, so each step is also a    *)
(* step from whatever the other mode has left.                             *)
(***************************************************************************)
MaxIfaceRuns == 2

IfaceNames == {"eth2", "eth3"}

\* enable or disable, any zone, any interface, any choice of layers
IfaceParams ==
    { MkParams(MkValue("interface", n, FALSE, <<>>, <<>>), st, pe, im, off, z, "public") :
        n \in IfaceNames, st \in {"enabled", "disabled"},
        pe \in BOOLEAN, im \in BOOLEAN, off \in BOOLEAN, z \in Zones }

\* the permanent interface entries when o[n] is the zone of n ("" for none)
OwnedBy(o) == { <<o[n], "interface", <<n>>>> : n \in { m \in IfaceNames : o[m] # "" } }

InitIface ==
    /\ running \in BOOLEAN
    /\ \E pz \in {LiveZones, Zones}, o \in [IfaceNames -> Zones \cup {""}] :
          /\ \A n \in IfaceNames : o[n] \in pz \cup {""}
          /\ cfg = [pzones  |-> pz,
                    perm    |-> OwnedBy(o),
                    runtime |-> {},
                    ptarget |-> [z \in Zones |-> "default"]]
    /\ last = NoRun
    /\ runs = 0

\* one more interface invocation
IfaceRun ==
    /\ runs < MaxIfaceRuns
    /\ \E p \in IfaceParams : Record(p, main(p, cfg, ~running), FALSE)

SpecIface == InitIface /\ [][IfaceRun]_vars

(***************************************************************************)
(* The module run on zone files that list one interface more than once     *)
(* (lines 652-653: "it's actually possible that the same interface is in   *)
(* several zone XML files").                                               *)
(***************************************************************************)
InitMulti ==
    /\ running \in BOOLEAN
    /\ \E pz \in {LiveZones, Zones}, own \in SUBSET Zones :
          /\ own \subseteq pz
          /\ Cardinality(own) > 1
          /\ cfg = [pzones  |-> pz,
                    perm    |-> { <<z, "interface", <<"eth2">>>> : z \in own },
                    runtime |-> {},
                    ptarget |-> [z \in Zones |-> "default"]]
    /\ last = NoRun
    /\ runs = 0

SpecMulti == InitMulti /\ [][Next]_vars

(***************************************************************************)
(* Properties                                                              *)
(***************************************************************************)
Ran == runs > 0

\* the invocation names ZoneTarget, or the bare zone (no primitive, present/absent)
ZoneKindRun ==
    Ran /\ (last.p.prim = "target"
            \/ (last.p.prim = "none" /\ last.p.state \in {"absent", "present"}))

\* the operations of a transaction that touch the live layer
ImmediateOps == {"get_enabled_immediate", "set_immediate"}

\* C1: the same invocation run a second time, nothing else writing in
\* between, reports changed=false and leaves both layers as they were.
C1_Idempotence ==
    (Ran /\ last.repeat) => (~last.res.changed /\ cfg = last.pre)

\* a transaction of the last invocation has called a set_* operation
SetCalled == \E k \in last.res.calls : k[2] \in {"set_permanent", "set_immediate"}

\* C2: the changed flag an invocation finally reports is true exactly when
\* a layer of one of its transactions was mutated (a set_enabled_* or
\* set_disabled_* operation ran).
C2_ChangedIffMutated ==
    (Ran /\ ~last.res.failed) => (last.res.changed <=> SetCalled)

\* C3: with state present or absent and any primitive but target supplied,
\* whatever its value, the invocation fails and no layer is mutated (the
\* kind of the error is left open here: any fatal error counts).
C3_PresentAbsentRejected ==
    (Ran /\ last.p.state \in {"absent", "present"} /\ last.p.prim \notin {"none", "target"})
        => (last.res.failed /\ cfg = last.pre)

\* C4: at most one transaction runs in an invocation; the zone's
\* transaction never runs together with a primitive's.
C4_AtMostOneTransaction ==
    Ran => Len(last.res.txns) <= 1

\* the immediate layer is selected once the flags are defaulted
ImmediateSelected ==
    IF last.p.offline /\ ~running THEN FALSE ELSE last.p.immediate \/ ~last.p.permanent

\* the permanent configuration is as it was before the invocation
PermanentUntouched ==
    /\ cfg.pzones = last.pre.pzones
    /\ cfg.ptarget = last.pre.ptarget
    /\ cfg.perm = last.pre.perm

\* C5 as stated: a ZoneTarget or bare zone invocation with the immediate
\* layer selected fails with 'Zone operations must be permanent' and leaves
\* the permanent configuration unchanged.
C5_Original ==
    (ZoneKindRun /\ ImmediateSelected)
        => (last.res.failed /\ last.res.err = "not_permanent" /\ PermanentUntouched)

\* C5 as amended: such an invocation always fails and leaves the permanent
\* configuration unchanged; the error is 'Zone operations must be permanent'
\* when the daemon runs, offline is not asked for without permanent, and
\* the permanent probe of a target invocation finds its zone.
C5_ZoneKindsRejectImmediate ==
    (ZoneKindRun /\ ImmediateSelected)
        => /\ last.res.failed
           /\ PermanentUntouched
           /\ (/\ running
               /\ ~(last.p.offline /\ ~last.p.permanent)
               /\ (last.p.prim = "target" /\ last.p.permanent
                      => last.p.zone \in last.pre.pzones))
                 => last.res.err = "not_permanent"
           /\ ~running /\ ~(last.p.offline /\ ~last.p.permanent)
                 => last.res.err = "unreachable"
           /\ last.p.offline /\ ~last.p.permanent
                 => last.res.err = "offline_without_permanent"

\* a target change asked for both layers on an existing zone is refused
C5_Witness ==
    /\ ZoneKindRun
    /\ last.p.prim = "target" /\ last.p.str = "DROP" /\ last.p.state = "present"
    /\ last.p.permanent /\ last.p.immediate /\ running
    /\ last.pre.ptarget[last.p.zone] = "default"
    /\ last.p.zone \in last.pre.pzones
    /\ last.res.failed /\ last.res.err = "not_permanent"

\* C6: daemon not running and the immediate layer selected after defaulting
\* (immediate given without the offline override, or forced because
\* permanent is false): the invocation fails with the unreachable-daemon
\* error before any transaction runs, and nothing is mutated.
C6_UnreachableDaemon ==
    (Ran /\ ~running /\ ~last.p.offline /\ (last.p.immediate \/ ~last.p.permanent))
        => /\ last.res.failed
           /\ last.res.err = "unreachable"
           /\ last.res.txns = <<>>
           /\ last.res.calls = {}
           /\ cfg = last.pre

\* permanent and immediate both asked for a service the disk lacks, daemon down
C6_Witness ==
    /\ Ran /\ ~running /\ ~last.p.offline
    /\ last.p.permanent /\ last.p.immediate
    /\ last.p.prim = "service" /\ last.p.state = "enabled"
    /\ <<last.p.zone, "service", <<"https">>>> \notin last.pre.perm
    /\ last.p.zone \in last.pre.pzones
    /\ last.res.err = "unreachable"

\* C7: offline=true with permanent=false always fails with a configuration
\* error, daemon running or not, whatever immediate is; nothing is mutated.
C7_OfflineNeedsPermanent ==
    (Ran /\ last.p.offline /\ ~last.p.permanent)
        => /\ last.res.failed
           /\ last.res.err = "offline_without_permanent"
           /\ last.res.err \in ConfigErrors
           /\ last.res.calls = {}
           /\ cfg = last.pre

\* offline without permanent on a running daemon, for a service the live layer lacks
C7_Witness ==
    /\ Ran /\ last.p.offline /\ ~last.p.permanent /\ running /\ last.p.immediate
    /\ last.p.prim = "service" /\ last.p.state = "enabled"
    /\ <<last.p.zone, "service", <<"https">>>> \notin last.pre.runtime
    /\ last.p.zone \in LiveZones
    /\ last.res.failed

\* C8: offline=true, permanent=true, daemon not running: immediate is
\* forced false whatever was passed; the invocation does not fail with the
\* unreachable-daemon error, and only operations of the permanent layer
\* are called.
C8_OfflineForcesPermanentOnly ==
    (Ran /\ last.p.offline /\ last.p.permanent /\ ~running)
        => /\ ~last.res.immediate
           /\ last.res.err # "unreachable"
           /\ \A k \in last.res.calls : k[2] \notin ImmediateOps
           /\ cfg.runtime = last.pre.runtime
           /\ (last.res.txns # <<>> => last.res.calls # {})

\* immediate=true was passed, and the rule went to disk only
C8_Witness ==
    /\ Ran /\ last.p.offline /\ last.p.permanent /\ ~running /\ last.p.immediate
    /\ last.p.prim = "port" /\ last.p.state = "enabled"
    /\ last.res.changed
    /\ <<last.p.zone, "port", <<"80", "tcp">>>> \in cfg.perm \ last.pre.perm

\* C9: when the invocation reaches a transaction, at least one of the
\* effective permanent and immediate flags is true; with both options false
\* the effective immediate flag is true and permanent stays false.
C9_LayerDefaulting ==
    (Ran /\ last.res.txns # <<>>)
        => /\ last.res.permanent \/ last.res.immediate
           /\ (~last.p.permanent /\ ~last.p.immediate)
                 => (last.res.immediate /\ ~last.res.permanent)
           /\ last.res.calls # {}

\* neither flag given: the live layer alone is changed
C9_Witness ==
    /\ Ran /\ ~last.p.permanent /\ ~last.p.immediate
    /\ last.res.txns = <<"service">> /\ last.res.changed
    /\ cfg.runtime # last.pre.runtime /\ cfg.perm = last.pre.perm

\* the invocation state=disabled, flag=true that mirrors last.p
Mirror(p) == [p EXCEPT !.state = "disabled", !.flag = TRUE]

\* C10: for Forward, Masquerade and IcmpBlockInversion, state=enabled with
\* flag=false has the same effective desired state, and from the same
\* configuration the same final layers and changed flag, as state=disabled
\* with flag=true.
C10_BooleanNormalization ==
    (Ran /\ last.p.prim \in BoolPrims /\ last.p.state = "enabled" /\ ~last.p.flag)
        => /\ TxDesired(last.p) = TxDesired(Mirror(last.p))
           /\ TxDesired(last.p) = "disabled"
           /\ main(Mirror(last.p), last.pre, ~running).cfg = cfg
           /\ main(Mirror(last.p), last.pre, ~running).changed = last.res.changed
           /\ main(Mirror(last.p), last.pre, ~running).failed = last.res.failed

\* state=enabled with forward=false has taken forward out of both layers
C10_Witness ==
    /\ Ran /\ last.p.prim = "forward" /\ last.p.state = "enabled" /\ ~last.p.flag
    /\ last.p.permanent /\ last.p.immediate
    /\ last.res.changed
    /\ <<last.p.zone, "forward", <<>>>> \in last.pre.perm \cap last.pre.runtime
    /\ <<last.p.zone, "forward", <<>>>> \notin cfg.perm \cup cfg.runtime

\* icmp_block_inversion=true with state=disabled has run to its end
InversionDisabledRun ==
    /\ Ran /\ ~last.res.failed
    /\ last.p.prim = "icmp_block_inversion" /\ last.p.flag /\ last.p.state = "disabled"

\* the zone's icmp-block-inversion rule, as the layers store it
InversionRule == <<last.p.zone, "icmp_block_inversion", <<>>>>

\* C11 as stated: with icmp_block_inversion=true and state=disabled the
\* effective desired state is enabled, and after the invocation
\* icmp-block-inversion is set in every selected layer of the zone.
C11_Original ==
    InversionDisabledRun
        => /\ TxDesired(last.p) = "enabled"
           /\ last.res.permanent => InversionRule \in cfg.perm
           /\ last.res.immediate => InversionRule \in cfg.runtime

\* C11 as amended: with icmp_block_inversion=true and state=disabled the
\* effective desired state is disabled, and after the invocation
\* icmp-block-inversion is not set in any selected layer of the zone.
C11_InversionDisabled ==
    InversionDisabledRun
        => /\ TxDesired(last.p) = "disabled"
           /\ last.res.permanent => InversionRule \notin cfg.perm
           /\ last.res.immediate => InversionRule \notin cfg.runtime

\* the inversion was set in both layers and the invocation has taken it out of both
C11_Witness ==
    /\ InversionDisabledRun
    /\ last.res.permanent /\ last.res.immediate /\ last.res.changed
    /\ InversionRule \in last.pre.perm \cap last.pre.runtime
    /\ InversionRule \notin cfg.perm \cup cfg.runtime

\* action_args of the last invocation's interface
IfaceArgs == <<last.p.str>>

\* a permanent enable of an interface has run to success
InterfaceAssigned ==
    /\ Ran /\ ~last.res.failed
    /\ last.p.prim = "interface" /\ last.p.state = "enabled" /\ last.p.permanent

\* C12: an interface owned in the permanent layer by zone A (its one
\* owner, as the data model has it) and enabled permanently for another
\* zone B is, after the successful invocation, absent from A's permanent
\* interfaces and present in B's; with the daemon running and in offline mode.
C12_SingleOwnership ==
    \A A \in Zones :
        (InterfaceAssigned /\ OwnersOf(last.pre, IfaceArgs) = {A} /\ A # last.p.zone)
            => /\ <<A, "interface", IfaceArgs>> \notin cfg.perm
               /\ <<last.p.zone, "interface", IfaceArgs>> \in cfg.perm
               /\ OwnersOf(cfg, IfaceArgs) = {last.p.zone}
               /\ last.res.changed

\* the running daemon has moved eth2 from public to work
C12_Witness ==
    /\ InterfaceAssigned /\ running
    /\ last.p.zone = "work"
    /\ OwnersOf(last.pre, IfaceArgs) = {"public"}
    /\ OwnersOf(cfg, IfaceArgs) = {"work"}

\* C13: from a permanent configuration in which every interface belongs
\* to at most one zone, after any sequence of interface invocations
\* (enable or disable, any zone, any interface, daemon running or not)
\* every interface belongs to at most one zone's permanent interfaces.
C13_AtMostOneZone ==
    \A n \in IfaceNames : Cardinality(OwnersOf(cfg, <<n>>)) <= 1

\* the second invocation of a sequence has moved eth3 from public to work,
\* where eth2 already is
C13_Witness ==
    /\ runs = 2
    /\ InterfaceAssigned /\ last.p.str = "eth3" /\ last.p.zone = "work"
    /\ OwnersOf(last.pre, <<"eth3">>) = {"public"}
    /\ OwnersOf(cfg, <<"eth3">>) = {"work"}
    /\ OwnersOf(cfg, <<"eth2">>) = {"work"}

\* in offline mode (daemon down, permanent layer alone selected) a
\* permanent enable of an interface that several zone files list has run
OfflineEnableOfShared ==
    /\ Ran /\ ~running
    /\ last.p.prim = "interface" /\ last.p.state = "enabled"
    /\ last.p.permanent /\ ~last.res.immediate
    /\ Cardinality(OwnersOf(last.pre, IfaceArgs)) > 1

\* C14 as stated: in offline mode a permanent enable of an interface that
\* more than one permanent zone lists fails fatally, reporting the number
\* of zones, and modifies no zone definition.
C14_Original ==
    OfflineEnableOfShared
        => /\ last.res.failed
           /\ last.res.err = MultiZoneError(Cardinality(OwnersOf(last.pre, IfaceArgs)))
           /\ cfg = last.pre

\* C14 as amended: it does so when the target zone exists and is not one
\* of the zones listing the interface; when the target zone is one of them
\* the invocation succeeds with changed=false; when the target zone does
\* not exist it fails on the permanent probe.  No zone definition is
\* modified in any of the three cases.
C14_MultiZoneRefused ==
    OfflineEnableOfShared
        => /\ cfg = last.pre
           /\ (last.p.zone \in last.pre.pzones /\ last.p.zone \notin OwnersOf(last.pre, IfaceArgs))
                 => /\ last.res.failed
                    /\ last.res.err
                         = MultiZoneError(Cardinality(OwnersOf(last.pre, IfaceArgs)))
                    /\ <<"interface", "set_permanent">> \in last.res.calls
           /\ last.p.zone \in OwnersOf(last.pre, IfaceArgs)
                 => /\ ~last.res.failed /\ ~last.res.changed
                    /\ <<"interface", "set_permanent">> \notin last.res.calls
           /\ last.p.zone \notin last.pre.pzones
                 => last.res.failed /\ last.res.err = "exception"

\* eth2 is in the zone files of public and work; its enable for custom is refused
C14_Witness ==
    /\ OfflineEnableOfShared
    /\ OwnersOf(last.pre, IfaceArgs) = {"public", "work"}
    /\ last.p.zone = "custom" /\ "custom" \in last.pre.pzones
    /\ last.res.failed /\ last.res.err = "interface is in 2 zone XML file"
    /\ cfg = last.pre

\* the invocation asks for the permanent layer alone / for the live layer alone
PermanentOnly == last.p.permanent /\ ~ImmediateSelected

ImmediateOnly == ~last.p.permanent

\* C15: for every rule kind, an invocation of the permanent layer alone
\* leaves the live layer as it was, and an invocation of the live layer
\* alone leaves the permanent layer as it was.
C15_LayerIndependence ==
    Ran => /\ PermanentOnly
                => /\ cfg.runtime = last.pre.runtime
                   /\ \A k \in last.res.calls : k[2] \notin ImmediateOps
           /\ ImmediateOnly
                => /\ PermanentUntouched
                   /\ \A k \in last.res.calls :
                         k[2] \notin {"get_enabled_permanent", "set_permanent"}

\* a service was added to the permanent layer alone while the daemon runs,
\* and the live layer still lacks it
C15_Witness ==
    /\ Ran /\ running /\ PermanentOnly
    /\ last.p.prim = "service" /\ last.p.state = "enabled" /\ last.res.changed
    /\ <<last.p.zone, "service", <<"https">>>> \in cfg.perm \ last.pre.perm
    /\ <<last.p.zone, "service", <<"https">>>> \notin cfg.runtime
    /\ last.p.zone \in LiveZones

\* the transaction that probes for the (kind, args) of invocation p
ProbeTx(p) ==
    IF p.prim = "none"
    THEN Transaction("zone", <<>>, p.state, p, p.immediate, ~running)
    ELSE Transaction(p.prim, ActionArgs(p), TxDesired(p), p, p.immediate, ~running)

\* a layer's query result in configuration c for the last invocation's (kind, args)
PermanentQuery(c) == get_enabled_permanent(ProbeTx(last.p), c).val

ImmediateQuery(c) == get_enabled_immediate(ProbeTx(last.p), c).val

\* an enable invocation and then the disable invocation for the same
\* (kind, args), zone and layers have both run to success
EnabledThenDisabled == Ran /\ last.undo /\ ~last.res.failed

\* the one (kind, args) whose query stays true after a disable: the
\* disable of a target writes 'default' (line 826)
StaysEnabled == last.p.prim = "target" /\ last.p.str = "default"

\* C16 as stated: after an enable and then a disable of the same (kind,
\* args) on the same layer, the layer's query result is what it was before
\* the enable, whatever that was.
C16_Original ==
    EnabledThenDisabled
        => /\ last.res.permanent => PermanentQuery(cfg) = PermanentQuery(last.first)
           /\ last.res.immediate => ImmediateQuery(cfg) = ImmediateQuery(last.first)

\* C16 as amended: after the two invocations the layer's query result is
\* "not enabled" (for target=default: "enabled"), so it equals the result
\* from before the enable exactly when that one was "not enabled" (for
\* target=default: "enabled").
C16_Symmetry ==
    EnabledThenDisabled
        => /\ last.res.permanent
                => /\ PermanentQuery(cfg) = StaysEnabled
                   /\ PermanentQuery(last.first) = StaysEnabled
                         => PermanentQuery(cfg) = PermanentQuery(last.first)
           /\ last.res.immediate
                => /\ ~ImmediateQuery(cfg)
                   /\ ~ImmediateQuery(last.first)
                         => ImmediateQuery(cfg) = ImmediateQuery(last.first)

\* a source missing from both layers was added to both and taken out again
C16_Witness ==
    /\ EnabledThenDisabled
    /\ last.p.prim = "source" /\ last.res.permanent /\ last.res.immediate
    /\ ~PermanentQuery(last.first) /\ ~ImmediateQuery(last.first)
    /\ PermanentQuery(last.pre) /\ ImmediateQuery(last.pre)
    /\ ~PermanentQuery(cfg) /\ ~ImmediateQuery(cfg)
    /\ last.res.changed

\* a port or source_port value without '/protocol', or with nothing after the '/'
MalformedPort ==
    /\ Ran /\ last.p.prim \in PortPrims
    /\ \/ \A i \in 1..Len(last.p.toks) : last.p.toks[i] # "/"
       \/ last.p.toks[Len(last.p.toks)] = "/"

\* the invocation failed before any transaction was made: nothing probed, nothing mutated
FailedBeforeTransactions ==
    /\ last.res.failed
    /\ last.res.txns = <<>>
    /\ last.res.calls = {}
    /\ cfg = last.pre

\* C17 as stated: such a value makes the invocation fail with a
\* configuration error before any transaction is created, so no layer is
\* probed or mutated.
C17_Original ==
    MalformedPort => (FailedBeforeTransactions /\ last.res.err \in ConfigErrors)

\* C17 as amended: such a value makes the invocation fail before any
\* transaction is created, so no layer is probed or mutated; the error is
\* the port-format configuration error of the option, unless offline is
\* given without permanent (that configuration error comes first) or the
\* daemon is down with the immediate layer selected (the unreachable-daemon
\* error comes first).
C17_MalformedPortRejected ==
    MalformedPort
        => /\ FailedBeforeTransactions
           /\ last.res.err =
                IF last.p.offline /\ ~last.p.permanent THEN "offline_without_permanent"
                ELSE IF ~running /\ ImmediateSelected THEN "unreachable"
                ELSE IF last.p.prim = "port" THEN "port_format"
                ELSE "source_port_format"

\* port "80/" for the permanent layer of an existing zone, daemon running
C17_Witness ==
    /\ MalformedPort /\ running
    /\ last.p.prim = "port" /\ last.p.toks = <<"80", "/">>
    /\ last.p.state = "enabled" /\ last.p.permanent /\ ~last.p.immediate
    /\ last.p.zone \in last.pre.pzones
    /\ last.res.err = "port_format"
    /\ FailedBeforeTransactions

\* C18: a target invocation with state=absent on the permanent layer that
\* succeeds leaves the zone's permanent target 'default', whatever the
\* target was before and whatever target value was passed.
C18_AbsentResetsTarget ==
    (Ran /\ ~last.res.failed
         /\ last.p.prim = "target" /\ last.p.state = "absent" /\ last.p.permanent)
        => cfg.ptarget[last.p.zone] = "default"

\* the bare zone, permanent layer alone: no primitive, state present or absent
BareZoneRun ==
    /\ Ran /\ last.p.prim = "none" /\ last.p.state \in {"absent", "present"}
    /\ last.p.permanent /\ ~ImmediateSelected

\* C19: bare zone existence on the permanent layer.  state=present creates
\* a missing zone (changed=true) and leaves an existing one (changed=false);
\* state=absent removes an existing zone (changed=true) and leaves a
\* missing one missing (changed=false); daemon running or not.
C19_ZoneExistence ==
    BareZoneRun
        => /\ ~last.res.failed
           /\ last.res.txns = <<"zone">>
           /\ (last.p.state = "present" /\ last.p.zone \notin last.pre.pzones)
                 => /\ last.res.changed
                    /\ cfg.pzones = last.pre.pzones \cup {last.p.zone}
           /\ (last.p.state = "present" /\ last.p.zone \in last.pre.pzones)
                 => ~last.res.changed /\ cfg = last.pre
           /\ (last.p.state = "absent" /\ last.p.zone \in last.pre.pzones)
                 => /\ last.res.changed
                    /\ cfg.pzones = last.pre.pzones \ {last.p.zone}
           /\ (last.p.state = "absent" /\ last.p.zone \notin last.pre.pzones)
                 => ~last.res.changed /\ cfg = last.pre

\* with the daemon down, state=present has created the missing zone custom
C19_Witness ==
    /\ BareZoneRun /\ ~running
    /\ last.p.state = "present" /\ last.p.zone = "custom"
    /\ "custom" \notin last.pre.pzones /\ "custom" \in cfg.pzones
    /\ last.res.changed

\* C20: the permanent re-assignment of an interface from its old zone to
\* the target zone is one step: in no permanent configuration the module
\* leaves behind is the interface out of the old zone and not in the
\* target zone, also when the commit of the target zone fails.
C20_AtomicReassignment ==
    \A A \in Zones :
        (/\ Ran /\ last.p.prim = "interface" /\ last.p.state = "enabled" /\ last.p.permanent
         /\ OwnersOf(last.pre, IfaceArgs) = {A} /\ A # last.p.zone)
            => \/ <<A, "interface", IfaceArgs>> \in cfg.perm
               \/ <<last.p.zone, "interface", IfaceArgs>> \in cfg.perm

\* a primitive's transaction has run on both layers and returned normally
DualLayerRun ==
    /\ Ran /\ ~last.res.failed
    /\ last.res.permanent /\ last.res.immediate
    /\ last.p.prim # "none" /\ last.res.txns = <<last.p.prim>>

\* the rule of the last invocation, as a layer stores it for the zone
RuleOf(p) == <<p.zone, p.prim, Stored(p.prim, ActionArgs(p))>>

\* the layer's state before the invocation differs from the desired state
PermanentDiffers == (RuleOf(last.p) \in last.pre.perm) # Enables(last.p)

ImmediateDiffers == (RuleOf(last.p) \in last.pre.runtime) # Enables(last.p)

\* C21: in a dual-layer invocation each layer is decided on its own
\* probe: a layer is mutated exactly when its own queried state differs
\* from the desired state; a layer that does not differ is left as it
\* was; changed=true is reported when at least one layer differs.
C21_PerLayerDecision ==
    DualLayerRun
        => /\ <<last.p.prim, "set_permanent">> \in last.res.calls <=> PermanentDiffers
           /\ <<last.p.prim, "set_immediate">> \in last.res.calls <=> ImmediateDiffers
           /\ ~PermanentDiffers => PermanentUntouched
           /\ ~ImmediateDiffers => cfg.runtime = last.pre.runtime
           /\ PermanentDiffers => (RuleOf(last.p) \in cfg.perm) = Enables(last.p)
           /\ ImmediateDiffers => (RuleOf(last.p) \in cfg.runtime) = Enables(last.p)
           /\ last.res.changed <=> (PermanentDiffers \/ ImmediateDiffers)

\* the forwarded port was on disk already and missing in the running
\* daemon: the live layer alone was mutated, and changed=true reported
C21_Witness ==
    /\ DualLayerRun
    /\ last.p.prim = "port_forward" /\ last.p.state = "enabled"
    /\ ~PermanentDiffers /\ ImmediateDiffers
    /\ cfg.perm = last.pre.perm
    /\ <<last.p.zone, "port_forward", <<"443", "tcp", "8443", "">>>>
         \in cfg.runtime \ last.pre.runtime
    /\ last.res.changed

\* the kind of the transaction the invocation ran last
LastKind == last.res.txns[Len(last.res.txns)]

\* the permanent probe of that transaction raises: the zone's settings cannot be fetched
PermanentProbeRaises ==
    last.res.permanent /\ LastKind # "zone" /\ last.p.zone \notin last.pre.pzones

\* the immediate probe of that transaction raises: the kind has no live
\* layer, or the running daemon does not know the zone
ImmediateProbeRaises ==
    last.res.immediate /\ (LastKind \in {"target", "zone"} \/ last.p.zone \notin LiveZones)

\* C22: within a transaction every requested layer is probed, permanent
\* first, before any layer is mutated: an error raised by either probe
\* aborts the invocation with both layers unchanged.
C22_ProbesBeforeMutation ==
    (Ran /\ last.res.txns # <<>> /\ (PermanentProbeRaises \/ ImmediateProbeRaises))
        => /\ last.res.failed
           /\ cfg = last.pre
           /\ <<LastKind, "set_permanent">> \notin last.res.calls
           /\ <<LastKind, "set_immediate">> \notin last.res.calls
           /\ PermanentProbeRaises => <<LastKind, "get_enabled_immediate">> \notin last.res.calls

\* everything configuration c holds for zone z: both layers, target, existence
ZoneView(c, z) ==
    [perm   |-> { x \in c.perm : x[1] = z },
     live   |-> { x \in c.runtime : x[1] = z },
     target |-> c.ptarget[z],
     exists |-> z \in c.pzones]

\* the zones other than the invocation's whose permanent settings / whose
\* settings in either layer the invocation has changed
OthersChangedOnDisk ==
    { z \in Zones \ {last.p.zone} :
        [ZoneView(cfg, z) EXCEPT !.live = {}] # [ZoneView(last.pre, z) EXCEPT !.live = {}] }

OthersChanged ==
    { z \in Zones \ {last.p.zone} : ZoneView(cfg, z) # ZoneView(last.pre, z) }

\* C23: a transaction for zone Z of a kind other than Interface leaves
\* every other zone's permanent and live settings unchanged; an Interface
\* permanent enable changes the permanent settings of at most one other
\* zone, a previous owner; an Interface disable for Z changes no other
\* zone, so the interface stays in every other zone that has it.
C23_OtherZonesUntouched ==
    Ran => /\ last.p.prim # "interface" => OthersChanged = {}
           /\ (last.p.prim = "interface" /\ Enables(last.p))
                 => /\ Cardinality(OthersChangedOnDisk) <= 1
                    /\ OthersChangedOnDisk \subseteq OwnersOf(last.pre, IfaceArgs)
           /\ (last.p.prim = "interface" /\ Disables(last.p))
                 => /\ OthersChanged = {}
                    /\ \A z \in OwnersOf(last.pre, IfaceArgs) \ {last.p.zone} :
                          z \in OwnersOf(cfg, IfaceArgs)

\* a service was added to both layers of zone work while zone public
\* holds rules of its own in both layers
C23_Witness ==
    /\ Ran /\ last.res.changed
    /\ last.p.prim = "service" /\ last.p.zone = "work" /\ last.p.state = "enabled"
    /\ last.res.permanent /\ last.res.immediate
    /\ ZoneView(cfg, "work") # ZoneView(last.pre, "work")
    /\ ZoneView(cfg, "public").perm # {} /\ ZoneView(cfg, "public").live # {}
    /\ ZoneView(cfg, "public") = ZoneView(last.pre, "public")

\* no primitive is supplied and state is enabled or disabled
NoPrimitiveRun ==
    Ran /\ last.p.prim = "none" /\ last.p.state \in {"enabled", "disabled"}

\* C24: an invocation without a primitive and with state enabled or
\* disabled runs no transaction: no layer is probed or mutated, no zone is
\* created or removed, and changed=false is reported.
C24_NothingToDo ==
    NoPrimitiveRun
        => /\ last.res.txns = <<>>
           /\ last.res.calls = {}
           /\ cfg = last.pre
           /\ ~last.res.changed

\* state=enabled alone, for the permanent layer of a zone that is not on
\* disk: the run ends normally and the zone is still missing
C24_Witness ==
    /\ NoPrimitiveRun /\ ~last.res.failed
    /\ last.p.state = "enabled" /\ last.p.permanent /\ ~last.p.immediate
    /\ last.p.zone = "custom" /\ "custom" \notin last.pre.pzones
    /\ "custom" \notin cfg.pzones

====
